---- MODULE Spec2Model ----
(***************************************************************************)
(* Model of obj2svg's conversion core: the tour orderer of svg2gcode.py    *)
(* (order_paths) and the path interpreter, transform parser, document      *)
(* walker and page set-up of geo.py.                                       *)
(*                                                                         *)
(* Text is a sequence of one-character strings.  Numbers are exact         *)
(* rationals: the inputs drawn below hold integer literals only.           *)
(***************************************************************************)
EXTENDS Integers, Sequences, FiniteSets, TLC

VARIABLES
    \* order_paths (svg2gcode.py)
    path_list,      \* the argument
    index,          \* the endpoint index, in dict insertion order
    out_list,       \* the polygons emitted so far
    cursor,         \* the orderer's cursor
    oi,             \* number of input polygons already indexed
    opc,            \* "index" | "select" | "done" | "idle"
    picks,          \* history: one record per emission
    \* path_to_poly_list (geo.py)
    path_str,       \* the argument, a text
    command_list,   \* the split text: letters and value texts in turn
    ci,             \* number of commands interpreted
    poly_list,      \* the subpaths built so far
    pcursor,        \* the interpreter's cursor
    ppc,            \* "start" | "loop" | "convert" | "returned" | "raised" | "idle"
    presult,        \* the value returned
    pnote,          \* history: how the last command ended
    pprev,          \* history: poly_list and cursor before the last command
    \* parse_transform (geo.py)
    ttext,          \* the argument, a text
    tpc,            \* "start" | "returned" | "raised" | "idle"
    tresult,        \* the value returned: kind "matrix" or "none"
    \* extract_paths (geo.py)
    tree,           \* the element tree: node number -> element
    root_xform,     \* the xform argument of the outermost call, "None" or a matrix
    wstack,         \* the calls still to be made, the next one first
    wpaths,         \* the polygons collected so far
    wlog,           \* history: per path element, the transform applied to it
    wpc,            \* "walk" | "returned" | "raised" | "idle"
    \* svg2paths (geo.py)
    page,           \* the width, height and viewbox attributes of the svg element
    spc,            \* "start" | "walking" | "returned" | "raised" | "idle"
    serror,         \* the exception svg2paths ended with, or "none"
    \* poly_points_bezier (geo.py)
    bz_cursor,      \* the cursor argument
    bz_segment,     \* the segment argument: six numbers
    bz_absolute,    \* the absolute argument
    bz_result,      \* the vertex list returned
    bpc,            \* "start" | "returned" | "idle"
    \* remove_backtracks (obj2svg.py)
    face_list,      \* the argument
    fi,             \* number of faces already counted
    line_dict,      \* the net count per sorted vertex pair, in dict insertion order
    line_soup,      \* the edges still to chain, per start vertex, in insertion order
    rpoly_list,     \* the polylines built so far
    rsteps,         \* history: iterations of the chaining loop
    rpc             \* "count" | "soup" | "chain" | "returned" | "idle"

ovars == <<path_list, index, out_list, cursor, oi, opc, picks>>

pvars == <<path_str, command_list, ci, poly_list, pcursor, ppc, presult, pnote, pprev>>

tvars == <<ttext, tpc, tresult>>

wvars == <<tree, root_xform, wstack, wpaths, wlog, wpc>>

svars == <<page, spc, serror>>

bvars == <<bz_cursor, bz_segment, bz_absolute, bz_result, bpc>>

rvars == <<face_list, fi, line_dict, line_soup, rpoly_list, rsteps, rpc>>

vars == <<ovars, pvars, tvars, wvars, svars, bvars, rvars>>

\* what a step of the orderer leaves alone
OrderFrame == UNCHANGED <<pvars, tvars, wvars, svars, bvars, rvars>>

\* what a step of the path interpreter leaves alone
PathFrame == UNCHANGED <<ovars, tvars, wvars, svars, bvars, rvars>>

\* what a call of parse_transform leaves alone
ParseFrame == UNCHANGED <<ovars, pvars, wvars, svars, bvars, rvars>>

\* what a step of the document walk leaves alone
WalkFrame == UNCHANGED <<ovars, pvars, tvars, bvars, rvars>>

\* what a call of poly_points_bezier leaves alone
BezierFrame == UNCHANGED <<ovars, pvars, tvars, wvars, svars, rvars>>

\* what a step of remove_backtracks leaves alone
BacktrackFrame == UNCHANGED <<ovars, pvars, tvars, wvars, svars, bvars>>

\* poly_points_bezier is not running
BezierIdle ==
    /\ bz_cursor = <<>>
    /\ bz_segment = <<>>
    /\ bz_absolute = FALSE
    /\ bz_result = <<>>
    /\ bpc = "idle"

\* remove_backtracks is not running
BacktrackIdle ==
    /\ face_list = <<>>
    /\ fi = 0
    /\ line_dict = <<>>
    /\ line_soup = <<>>
    /\ rpoly_list = <<>>
    /\ rsteps = 0
    /\ rpc = "idle"

\* parse_transform is not running
ParseIdle ==
    /\ ttext = <<>>
    /\ tpc = "idle"
    /\ tresult = <<>>

\* extract_paths is not running
WalkIdle ==
    /\ tree = <<>>
    /\ root_xform = "None"
    /\ wstack = <<>>
    /\ wpaths = <<>>
    /\ wlog = <<>>
    /\ wpc = "idle"

\* svg2paths is not running
SvgIdle ==
    /\ page = <<>>
    /\ spc = "idle"
    /\ serror = "none"

\* the orderer is not running
OrderIdle ==
    /\ path_list = <<>>
    /\ index = <<>>
    /\ out_list = <<>>
    /\ cursor = <<0, 0>>
    /\ oi = 0
    /\ opc = "idle"
    /\ picks = <<>>

\* the path interpreter is not running
PathIdle ==
    /\ path_str = <<>>
    /\ command_list = <<>>
    /\ ci = 0
    /\ poly_list = <<>>
    /\ pcursor = <<>>
    /\ ppc = "idle"
    /\ presult = <<>>
    /\ pnote = "none"
    /\ pprev = <<>>

----------------------------------------------------------------------------
(* General helpers *)

Reverse(s) == [k \in 1..Len(s) |-> s[Len(s) + 1 - k]]

Last(s) == s[Len(s)]

RemoveAt(s, k) == SubSeq(s, 1, k - 1) \o SubSeq(s, k + 1, Len(s))

SeqsUpTo(S, n) == UNION {[1..k -> S] : k \in 0..n}

----------------------------------------------------------------------------
(* order_paths: bounds and inputs *)

MaxPolys == 2

MaxPolyLen == 2

GridPoints == {<<0, 0>>, <<1, 0>>, <<0, 1>>}

GridPolys == SeqsUpTo(GridPoints, MaxPolyLen)

\* the inputs the specification's examples name
TwoDisjoint == << <<(<<0, 0>>), (<<1, 0>>)>>, <<(<<5, 5>>), (<<6, 5>>)>> >>

OneDiagonal == << <<(<<0, 0>>), (<<1, 1>>)>> >>

OneDiagonalBack == << <<(<<3, 3>>), (<<1, 1>>)>> >>

OrderInputs == SeqsUpTo(GridPolys, MaxPolys) \cup {TwoDisjoint, OneDiagonal, OneDiagonalBack}

StartCursor == <<0, 0>>

----------------------------------------------------------------------------
(* order_paths *)

\* dist2d, squared: the square root is monotonic, so comparisons agree
dist2dSq(a, b) == (b[1] - a[1]) * (b[1] - a[1]) + (b[2] - a[2]) * (b[2] - a[2])

\* position of a key in the index, 0 when absent
KeyPos(idx, key) ==
    LET S == {k \in 1..Len(idx) : idx[k].key = key}
    IN  IF S = {} THEN 0 ELSE CHOOSE k \in S : TRUE

IndexKeys(idx) == {idx[k].key : k \in 1..Len(idx)}

\* index[key].append(item) on a defaultdict(list)
IndexAppend(idx, key, item) ==
    LET k == KeyPos(idx, key)
    IN  IF k = 0
        THEN Append(idx, [key |-> key, items |-> <<item>>])
        ELSE [idx EXCEPT ![k].items = Append(@, item)]

\* an indexing step that registers the start of the polygon only
IndexOneStartOnly(idx, i, path) ==
    IF path = <<>>
    THEN idx
    ELSE IndexAppend(idx, path[1], [i |-> i, reverse |-> FALSE])

\* one iteration of the indexing loop over enumerate(path_list)
IndexOne(idx, i, path) ==
    IF path = <<>>
    THEN idx
    ELSE IndexAppend(IndexAppend(idx, path[1], [i |-> i, reverse |-> FALSE]),
                     Last(path), [i |-> i, reverse |-> TRUE])

\* add_item without the removal of the polygon's other registration
AddItemKeepOther(idx, plist, start) ==
    LET k == KeyPos(idx, start)
        item == Head(idx[k].items)
        rest == Tail(idx[k].items)
        idx1 == IF rest = <<>> THEN RemoveAt(idx, k) ELSE [idx EXCEPT ![k].items = rest]
        path == IF item.reverse THEN Reverse(plist[item.i]) ELSE plist[item.i]
    IN  [index |-> idx1, path |-> path, item |-> item]

\* add_item that never reverses the polygon
AddItemNoReverse(idx, plist, start) ==
    LET k == KeyPos(idx, start)
        item == Head(idx[k].items)
        rest == Tail(idx[k].items)
        idx1 == IF rest = <<>> THEN RemoveAt(idx, k) ELSE [idx EXCEPT ![k].items = rest]
        path == plist[item.i]
        ke == KeyPos(idx1, Last(path))
        kept == SelectSeq(idx1[ke].items, LAMBDA v : v.i # item.i)
        idx2 == IF ke = 0 THEN idx1
                ELSE IF kept = <<>> THEN RemoveAt(idx1, ke)
                ELSE [idx1 EXCEPT ![ke].items = kept]
    IN  [index |-> idx2, path |-> path, item |-> item]

\* add_item(start): the new index, the polygon as emitted, the item popped
AddItem(idx, plist, start) ==
    LET k == KeyPos(idx, start)
        item == Head(idx[k].items)
        rest == Tail(idx[k].items)
        idx1 == IF rest = <<>> THEN RemoveAt(idx, k) ELSE [idx EXCEPT ![k].items = rest]
        path == IF item.reverse THEN Reverse(plist[item.i]) ELSE plist[item.i]
        ke == KeyPos(idx1, Last(path))
        kept == SelectSeq(idx1[ke].items, LAMBDA v : v.i # item.i)
        idx2 == IF ke = 0 THEN idx1
                ELSE IF kept = <<>> THEN RemoveAt(idx1, ke)
                ELSE [idx1 EXCEPT ![ke].items = kept]
    IN  [index |-> idx2, path |-> path, item |-> item]

\* the scan that takes the first key whatever its distance
LoPointFirst(idx, cur) == idx[1].key

\* the scan over index.keys(): the first key, in dict order, at least distance
LoPoint(idx, cur) ==
    LET k == CHOOSE k \in 1..Len(idx) :
                 /\ \A j \in 1..Len(idx) :
                        dist2dSq(cur, idx[k].key) <= dist2dSq(cur, idx[j].key)
                 /\ \A j \in 1..(k - 1) :
                        dist2dSq(cur, idx[j].key) > dist2dSq(cur, idx[k].key)
    IN  idx[k].key

OrderInit ==
    /\ path_list \in OrderInputs
    /\ index = <<>>
    /\ out_list = <<>>
    /\ cursor = StartCursor
    /\ oi = 0
    /\ opc = "index"
    /\ picks = <<>>
    /\ PathIdle /\ ParseIdle /\ WalkIdle /\ SvgIdle /\ BezierIdle /\ BacktrackIdle

\* for i, path in enumerate(path_list): one iteration
IndexPath ==
    /\ opc = "index"
    /\ oi < Len(path_list)
    /\ index' = IndexOne(index, oi + 1, path_list[oi + 1])
    /\ oi' = oi + 1
    /\ UNCHANGED <<path_list, out_list, cursor, opc, picks>>
    /\ OrderFrame

\* the indexing loop is over
IndexDone ==
    /\ opc = "index"
    /\ oi = Len(path_list)
    /\ opc' = "select"
    /\ UNCHANGED <<path_list, index, out_list, cursor, oi, picks>>
    /\ OrderFrame

\* while index: one iteration
SelectNext ==
    /\ opc = "select"
    /\ index # <<>>
    /\ LET lo_point == LoPoint(index, cursor)
           r == AddItem(index, path_list, lo_point)
       IN  /\ index' = r.index
           /\ out_list' = Append(out_list, r.path)
           /\ cursor' = Last(r.path)
           /\ picks' = Append(picks, [i |-> r.item.i, lo_point |-> lo_point,
                                      from |-> cursor])
    /\ UNCHANGED <<path_list, oi, opc>>
    /\ OrderFrame

\* return out_list
OrderReturn ==
    /\ opc = "select"
    /\ index = <<>>
    /\ opc' = "done"
    /\ UNCHANGED <<path_list, index, out_list, cursor, oi, picks>>
    /\ OrderFrame

OrderNext == IndexPath \/ IndexDone \/ SelectNext \/ OrderReturn

SpecOrder == OrderInit /\ [][OrderNext]_vars

----------------------------------------------------------------------------
(* Claims about order_paths *)

\* out is inp reordered, each element as given or exactly reversed
IsOrientedPermutation(out, inp) ==
    /\ Len(out) = Len(inp)
    /\ \E f \in [1..Len(out) -> 1..Len(inp)] :
           /\ \A a, b \in 1..Len(out) : a # b => f[a] # f[b]
           /\ \A k \in 1..Len(out) :
                  out[k] = inp[f[k]] \/ out[k] = Reverse(inp[f[k]])

NonEmptyPolys(plist) == SelectSeq(plist, LAMBDA p : p # <<>>)

\* C1 as stated: the list returned by order_paths is a permutation of the whole
\* input list, each polygon as given or reversed, empty polygons included.
C1_Original == opc = "done" => IsOrientedPermutation(out_list, path_list)

\* C1 amended: the list returned by order_paths is a permutation of the
\* NON-EMPTY polygons of the input, each exactly once, as given or exactly
\* reversed, and holds nothing else; empty polygons are left out.
C1_Permutation == opc = "done" => IsOrientedPermutation(out_list, NonEmptyPolys(path_list))

\* two polygons that share an endpoint, both emitted, one of them reversed
C1_Witness ==
    /\ opc = "done"
    /\ Len(path_list) = 2
    /\ Len(out_list) = 2
    /\ Last(path_list[1]) = Last(path_list[2])
    /\ path_list[1][1] # Last(path_list[1])
    /\ \E k \in 1..2 : out_list[k] \notin {path_list[1], path_list[2]}

\* indices of the polygons emitted by the first k iterations
EmittedBefore(k) == {picks[j].i : j \in 1..(k - 1)}

\* endpoints of the non-empty polygons not emitted before iteration k
RemainingEndpoints(k) ==
    UNION {{path_list[i][1], Last(path_list[i])} :
              i \in {i \in 1..Len(path_list) :
                        path_list[i] # <<>> /\ i \notin EmittedBefore(k)}}

\* C2: the cursor starts at (0,0); every emitted polygon is one not emitted
\* before and begins, as emitted, at an endpoint whose distance to the cursor
\* of that moment is minimal over the endpoints of all polygons not yet
\* emitted; after each emission the cursor is the last vertex of the polygon
\* as emitted; the two disjoint polygons of the example come out in the given
\* order, unreversed, with final cursor (6,5).
C2_NearestFirst ==
    /\ Len(picks) = Len(out_list)
    /\ cursor = IF out_list = <<>> THEN <<0, 0>> ELSE Last(Last(out_list))
    /\ \A k \in 1..Len(out_list) :
           /\ picks[k].from = (IF k = 1 THEN <<0, 0>> ELSE Last(out_list[k - 1]))
           /\ picks[k].i \notin EmittedBefore(k)
           /\ out_list[k] \in {path_list[picks[k].i], Reverse(path_list[picks[k].i])}
           /\ out_list[k][1] \in RemainingEndpoints(k)
           /\ \A q \in RemainingEndpoints(k) :
                  dist2dSq(picks[k].from, out_list[k][1]) <= dist2dSq(picks[k].from, q)
    /\ (path_list = TwoDisjoint /\ opc = "done") =>
           (out_list = TwoDisjoint /\ cursor = <<6, 5>>)

\* the example of C2 has run to its end
C2_Witness ==
    /\ opc = "done"
    /\ path_list = TwoDisjoint
    /\ Len(out_list) = 2
    /\ picks[2].from = <<1, 0>>

----------------------------------------------------------------------------
(* Text: sequences of one-character strings *)

Digits == <<"0", "1", "2", "3", "4", "5", "6", "7", "8", "9">>

DigitChars == {Digits[k] : k \in 1..10}

DigitVal(c) == (CHOOSE k \in 1..10 : Digits[k] = c) - 1

LowerLetters == <<"m", "l", "h", "v", "z", "c", "s", "q", "t", "a">>

UpperLetters == <<"M", "L", "H", "V", "Z", "C", "S", "Q", "T", "A">>

\* str.upper() on one character
Upper(c) ==
    IF \E k \in 1..10 : LowerLetters[k] = c
    THEN UpperLetters[CHOOSE k \in 1..10 : LowerLetters[k] = c]
    ELSE c

\* str.lower() on one character
Lower(c) ==
    IF \E k \in 1..10 : UpperLetters[k] = c
    THEN LowerLetters[CHOOSE k \in 1..10 : UpperLetters[k] = c]
    ELSE c

\* [mlhvzcsqta] under re.I
CmdLetters == {LowerLetters[k] : k \in 1..10} \cup {UpperLetters[k] : k \in 1..10}

Take(s, n) == SubSeq(s, 1, IF n < Len(s) THEN n ELSE Len(s))

Drop(s, n) == SubSeq(s, n + 1, Len(s))

\* str.split(): the maximal runs of non-space characters
RECURSIVE SplitWords(_, _)
SplitWords(t, cur) ==
    IF t = <<>>
    THEN IF cur = <<>> THEN <<>> ELSE <<cur>>
    ELSE IF t[1] = " "
         THEN (IF cur = <<>> THEN <<>> ELSE <<cur>>) \o SplitWords(Tail(t), <<>>)
         ELSE SplitWords(Tail(t), Append(cur, t[1]))

RECURSIVE JoinWords(_)
JoinWords(ws) ==
    IF ws = <<>> THEN <<>>
    ELSE IF Len(ws) = 1 THEN ws[1]
    ELSE ws[1] \o <<" ">> \o JoinWords(Tail(ws))

\* common.clean_whitespace: runs of white space become one space, the ends
\* are stripped
clean_whitespace(t) == JoinWords(SplitWords(t, <<>>))

\* one step of the automaton of the decimal literals float() accepts
FloatStep(s, c) ==
    CASE s = "start" /\ c \in DigitChars -> "int"
      [] s = "start" /\ c \in {"-", "+"} -> "sign"
      [] s = "start" /\ c = "." -> "dot"
      [] s = "sign" /\ c \in DigitChars -> "int"
      [] s = "sign" /\ c = "." -> "dot"
      [] s = "int" /\ c \in DigitChars -> "int"
      [] s = "int" /\ c = "." -> "frac"
      [] s = "int" /\ c \in {"e", "E"} -> "e"
      [] s = "dot" /\ c \in DigitChars -> "frac"
      [] s = "frac" /\ c \in DigitChars -> "frac"
      [] s = "frac" /\ c \in {"e", "E"} -> "e"
      [] s = "e" /\ c \in DigitChars -> "exp"
      [] s = "e" /\ c \in {"-", "+"} -> "esign"
      [] s = "esign" /\ c \in DigitChars -> "exp"
      [] s = "exp" /\ c \in DigitChars -> "exp"
      [] OTHER -> "bad"

RECURSIVE FloatScan(_, _)
FloatScan(s, t) == IF t = <<>> THEN s ELSE FloatScan(FloatStep(s, t[1]), Tail(t))

\* float(t) does not raise ValueError
IsFloatText(t) == FloatScan("start", t) \in {"int", "frac", "exp"}

RECURSIVE DigitsValue(_, _)
DigitsValue(t, acc) ==
    IF t = <<>> THEN acc ELSE DigitsValue(Tail(t), 10 * acc + DigitVal(t[1]))

\* the value of an integer literal (the inputs hold no fraction or exponent)
IntLiteralValue(t) ==
    CASE t[1] = "-" /\ (\A k \in 2..Len(t) : t[k] \in DigitChars) -> 0 - DigitsValue(Tail(t), 0)
      [] t[1] = "+" /\ (\A k \in 2..Len(t) : t[k] \in DigitChars) -> DigitsValue(Tail(t), 0)
      [] \A k \in 1..Len(t) : t[k] \in DigitChars -> DigitsValue(t, 0)

----------------------------------------------------------------------------
(* Numbers: exact rationals <<numerator, denominator>>, denominator > 0 *)

Abs(x) == IF x < 0 THEN 0 - x ELSE x

RECURSIVE GCD(_, _)
GCD(a, b) == IF b = 0 THEN a ELSE GCD(b, a % b)

QNorm(n, d) == LET g == GCD(Abs(n), d) IN <<n \div g, d \div g>>

Q(n) == <<n, 1>>

QAdd(a, b) == QNorm(a[1] * b[2] + b[1] * a[2], a[2] * b[2])

QMul(a, b) == QNorm(a[1] * b[1], a[2] * b[2])

QNeg(a) == <<0 - a[1], a[2]>>

\* a vertex or polygon of integers as one of numbers
QVertex(v) == [k \in 1..Len(v) |-> Q(v[k])]

QPoly(p) == [k \in 1..Len(p) |-> QVertex(p[k])]

\* float(t): the number, or the ValueError
py_float(t) ==
    IF IsFloatText(t) THEN [ok |-> TRUE, v |-> Q(IntLiteralValue(t))]
    ELSE [ok |-> FALSE, v |-> Q(0)]

----------------------------------------------------------------------------
(* geo.py: poly_points_bezier, poly_points_linear *)

\* math.atan2(dy, dx) in units of pi/4, for the eight compass directions and
\* the zero vector (the curve inputs drawn below use no other direction)
Atan2Octant(dy, dx) ==
    CASE dx = 0 /\ dy = 0 -> 0
      [] dy = 0 /\ dx > 0 -> 0
      [] dy > 0 /\ dx = dy -> 1
      [] dy > 0 /\ dx = 0 -> 2
      [] dy > 0 /\ dx = 0 - dy -> 3
      [] dy = 0 /\ dx < 0 -> 4
      [] dy < 0 /\ dx = dy -> 0 - 3
      [] dy < 0 /\ dx = 0 -> 0 - 2
      [] dy < 0 /\ dx = 0 - dy -> 0 - 1

\* ang_diff, in units of pi/4
ang_diff(a1, a2) ==
    LET diff == a2 - a1
        d1 == IF diff > 4 THEN diff - 8 ELSE diff
    IN  IF d1 < 0 - 4 THEN d1 + 8 ELSE d1

\* int(10 * d) for d = k * pi/4, k = 0..8
IntTenTimesOctants(k) == <<0, 7, 15, 23, 31, 39, 47, 54, 62>>[k + 1]

\* int(math.sqrt(dx * dx + dy * dy) / 100)
IntLengthOver100(dx, dy) ==
    CHOOSE m \in 0..(Abs(dx) + Abs(dy)) :
        /\ 10000 * m * m <= dx * dx + dy * dy
        /\ dx * dx + dy * dy < 10000 * (m + 1) * (m + 1)

\* the integer a number is (curve control points are integers)
IntOf(q) == CASE q[2] = 1 -> q[1]

\* point(p0, p1, p2, p3, t) at t = k / n
point(p0, p1, p2, p3, k, n) ==
    QNorm(p0 * (n - k) * (n - k) * (n - k)
          + p1 * 3 * (n - k) * (n - k) * k
          + p2 * 3 * (n - k) * k * k
          + p3 * k * k * k,
          n * n * n)

\* the segment count n of poly_points_bezier for control polygon p
BezierCount(p) ==
    LET a1 == Atan2Octant(IntOf(p[2][2]) - IntOf(p[1][2]), IntOf(p[2][1]) - IntOf(p[1][1]))
        a2 == Atan2Octant(IntOf(p[3][2]) - IntOf(p[2][2]), IntOf(p[3][1]) - IntOf(p[2][1]))
        a3 == Atan2Octant(IntOf(p[4][2]) - IntOf(p[3][2]), IntOf(p[4][1]) - IntOf(p[3][1]))
        d == Abs(ang_diff(a1, a2)) + Abs(ang_diff(a2, a3))
    IN  1 + IntTenTimesOctants(d)
          + IntLengthOver100(IntOf(p[4][1]) - IntOf(p[1][1]), IntOf(p[4][2]) - IntOf(p[1][2]))

\* the pairs cut from a segment (the last one may hold a single value)
RECURSIVE SegmentPairs(_)
SegmentPairs(segment) ==
    IF segment = <<>> THEN <<>>
    ELSE <<Take(segment, 2)>> \o SegmentPairs(Drop(segment, 2))

\* poly_points_bezier: raised (an IndexError), or the vertex list
poly_points_bezier(command, cur, segment, absolute) ==
    LET pairs == SegmentPairs(segment)
        relBad == ~absolute /\ pairs # <<>>
                  /\ (Len(cur) < 2 \/ \E k \in 1..Len(pairs) : Len(pairs[k]) < 2)
        p == <<cur>> \o
             [k \in 1..Len(pairs) |->
                 IF absolute THEN pairs[k]
                 ELSE <<QAdd(cur[1], pairs[k][1]), QAdd(cur[2], pairs[k][2])>>]
        short == Len(p) < 4 \/ \E k \in 1..4 : Len(p[k]) < 2
        n == BezierCount(p)
    IN  IF relBad \/ short
        THEN [raised |-> TRUE, vertex_list |-> <<>>]
        ELSE [raised |-> FALSE,
              vertex_list |->
                  [i \in 1..n |->
                      <<point(IntOf(p[1][1]), IntOf(p[2][1]), IntOf(p[3][1]), IntOf(p[4][1]), i, n),
                        point(IntOf(p[1][2]), IntOf(p[2][2]), IntOf(p[3][2]), IntOf(p[4][2]), i, n)>>]]

\* list.insert(k, x), k counted from 0
ListInsert(s, k, x) == Take(s, k) \o <<x>> \o Drop(s, k)

\* poly_points_linear: raised (an IndexError), or the one-vertex list
poly_points_linear(command, cur, segment, absolute) ==
    LET isH == Upper(command) = "H"
        isV == Upper(command) = "V"
        hBad == isH /\ absolute /\ Len(cur) < 2
        s1 == IF isH THEN ListInsert(segment, 1, IF absolute THEN cur[2] ELSE Q(0))
              ELSE segment
        s2 == IF isV THEN ListInsert(s1, 0, IF absolute THEN cur[1] ELSE Q(0))
              ELSE s1
        relBad == ~absolute /\ (Len(s2) < 2 \/ Len(cur) < 2)
    IN  IF hBad \/ relBad
        THEN [raised |-> TRUE, vertex_list |-> <<>>]
        ELSE IF absolute
        THEN [raised |-> FALSE, vertex_list |-> <<s2>>]
        ELSE [raised |-> FALSE,
              vertex_list |-> << <<QAdd(cur[1], s2[1]), QAdd(cur[2], s2[2])>> >>]

----------------------------------------------------------------------------
(* geo.py: path_to_poly_list *)

\* re.compile(" ([mlhvzcsqta])([0-9-])", re.I).sub(r"\1 \2", path)
RECURSIVE SubCommandDigit(_)
SubCommandDigit(t) ==
    IF t = <<>> THEN <<>>
    ELSE IF Len(t) >= 3 /\ t[1] = " " /\ t[2] \in CmdLetters
            /\ t[3] \in DigitChars \cup {"-"}
         THEN <<t[2], " ", t[3]>> \o SubCommandDigit(Drop(t, 3))
         ELSE <<t[1]>> \o SubCommandDigit(Tail(t))

\* re.sub(",", " ", path)
CommasToSpaces(t) == [k \in 1..Len(t) |-> IF t[k] = "," THEN " " ELSE t[k]]

\* re.compile(" ([mlhvzcsqta])", re.I).split(path): the text before the first
\* match, then each matched letter followed by the text up to the next match
RECURSIVE ReSplitCommands(_, _)
ReSplitCommands(t, cur) ==
    IF t = <<>> THEN <<cur>>
    ELSE IF Len(t) >= 2 /\ t[1] = " " /\ t[2] \in CmdLetters
         THEN <<cur, <<t[2]>>>> \o ReSplitCommands(Drop(t, 2), <<>>)
         ELSE ReSplitCommands(Tail(t), Append(cur, t[1]))

\* lines 131-133
NormalisePath(path_text) ==
    CommasToSpaces(SubCommandDigit(<<" ">> \o clean_whitespace(path_text)))

\* line 165: command_list, letters at the odd places, value text at the even
CommandList(path_text) == Tail(ReSplitCommands(NormalisePath(path_text), <<>>))

\* a handlers table whose MoveTo is a drawing command
handlersMoveDraws ==
    ("M" :> [length |-> 2, draw |-> TRUE, path |-> "linear"]) @@
    ("L" :> [length |-> 2, draw |-> TRUE, path |-> "linear"]) @@
    ("H" :> [length |-> 1, draw |-> TRUE, path |-> "linear"]) @@
    ("V" :> [length |-> 1, draw |-> TRUE, path |-> "linear"]) @@
    ("Z" :> [length |-> 0, draw |-> TRUE, path |-> "none"]) @@
    ("C" :> [length |-> 6, draw |-> TRUE, path |-> "bezier"])

\* the handlers table
handlers ==
    ("M" :> [length |-> 2, draw |-> FALSE, path |-> "linear"]) @@
    ("L" :> [length |-> 2, draw |-> TRUE, path |-> "linear"]) @@
    ("H" :> [length |-> 1, draw |-> TRUE, path |-> "linear"]) @@
    ("V" :> [length |-> 1, draw |-> TRUE, path |-> "linear"]) @@
    ("Z" :> [length |-> 0, draw |-> TRUE, path |-> "none"]) @@
    ("C" :> [length |-> 6, draw |-> TRUE, path |-> "bezier"])

\* poly_list[-1] extended by the vertices
ExtendLast(pl, vertex_list) == [pl EXCEPT ![Len(pl)] = @ \o vertex_list]

\* a closing point taken from the end of the subpath
ClosePointLast(pl) == Last(Last(pl))

\* line 206: the point a ClosePath appends, poly_list[-1][0]
ClosePoint(pl) == Last(pl)[1]

\* the `while values:` loop of one command
RECURSIVE RunValues(_, _, _, _, _, _)
RunValues(h, command, absolute, values, pl, cur) ==
    IF values = <<>> \/ h.path = "none"
    THEN [raised |-> FALSE, poly_list |-> pl, cursor |-> cur]
    ELSE LET segment == Take(values, h.length)
             r == IF h.path = "linear"
                  THEN poly_points_linear(command, cur, segment, absolute)
                  ELSE poly_points_bezier(command, cur, segment, absolute)
         IN  IF r.raised
             THEN [raised |-> TRUE, poly_list |-> pl, cursor |-> cur]
             ELSE RunValues(h, command, absolute, Drop(values, h.length),
                            ExtendLast(pl, r.vertex_list), Last(r.vertex_list))

\* one iteration of the command loop (lines 167-206)
DoCommand(pl, cur, command, value_text) ==
    LET absolute == command = Upper(command)
        words == SplitWords(clean_whitespace(value_text), <<>>)
        known == Upper(command) \in DOMAIN handlers
        floats == [k \in 1..Len(words) |-> py_float(words[k])]
        values == [k \in 1..Len(words) |-> floats[k].v]
        h == handlers[Upper(command)]
        pl1 == IF ~h.draw /\ Last(pl) # <<>> THEN Append(pl, <<>>) ELSE pl
        r == RunValues(h, command, absolute, values, pl1, cur)
        isZ == Upper(command) = "Z"
    IN  IF ~known
        THEN [outcome |-> "break", why |-> "nohandler", poly_list |-> pl, cursor |-> cur]
        ELSE IF \E k \in 1..Len(words) : ~floats[k].ok
        THEN [outcome |-> "break", why |-> "valueerror", poly_list |-> pl, cursor |-> cur]
        ELSE IF r.raised \/ (isZ /\ Last(r.poly_list) = <<>>)
        THEN [outcome |-> "raise", why |-> "IndexError", poly_list |-> pl, cursor |-> cur]
        ELSE [outcome |-> "ok", why |-> "none",
              poly_list |-> IF isZ
                            THEN ExtendLast(r.poly_list, <<ClosePoint(r.poly_list)>>)
                            ELSE r.poly_list,
              cursor |-> r.cursor]

\* line 209: every vertex as the pair (v[0], v[1]); raised when a vertex is short
TuplesRaise(pl) == \E i \in 1..Len(pl) : \E k \in 1..Len(pl[i]) : Len(pl[i][k]) < 2

Tuples(pl) == [i \in 1..Len(pl) |-> [k \in 1..Len(pl[i]) |-> Take(pl[i][k], 2)]]

----------------------------------------------------------------------------
(* path_to_poly_list: bounds, inputs and steps *)

MaxCmds == 3

\* command texts the generated paths are concatenated from
PathPieces == {
    <<" ", "M", " ", "0", ",", "0">>,
    <<"M", "1", ",", "1">>,
    <<" ", "m", " ", "1", " ", "2", " ", "1", " ", "0">>,
    <<" ", "L", " ", "2", ",", "0">>,
    <<" ", "l", "-", "1", ",", "1">>,
    <<" ", "H", " ", "3">>,
    <<" ", "v", " ", "1">>,
    <<" ", "Z">>,
    <<" ", "z">>,
    <<" ", "L", " ", "1">>,
    <<" ", "Q", " ", "1", " ", "1">>,
    <<" ", "L", " ", "x">>,
    <<" ", "C", " ", "1", " ", "2", " ", "3">>,
    <<" ", "c", " ", "1", ",", "0", " ", "1", ",", "1", " ", "0", ",", "1">>,
    <<" ", "c", " ", "1", ",", "0", " ", "2", ",", "0", " ", "3", ",", "0">>
}

RECURSIVE Concat(_)
Concat(ts) == IF ts = <<>> THEN <<>> ELSE ts[1] \o Concat(Tail(ts))

\* the paths the specification's examples name
PathClosedTight == <<"M", "0", ",", "0", " ", "L", "1", "0", ",", "0", " ", "L", "1", "0", ",", "1", "0", " ", "Z">>

PathClosedSpaced == <<"M", " ", "0", ",", "0", " ", "L", " ", "1", "0", ",", "0", " ", "L", " ", "1", "0", ",", "1", "0", " ", "Z">>

PathQbad == <<"M", "0", ",", "0", " ", "Q", "b", "a", "d">>

PathQbadSpaced == <<"M", " ", "0", ",", "0", " ", "Q", " ", "b", "a", "d">>

PathCurve == <<"M", " ", "0", ",", "0", " ", "C", " ", "0", ",", "0", " ", "1", "0", ",", "0", " ", "1", "0", ",", "1", "0">>

\* " L 2,0 M 5": a MoveTo with half a pair
PathMoveHalf == <<" ", "L", " ", "2", ",", "0", " ", "M", " ", "5">>

\* " L 2,0 M": a MoveTo without values
PathMoveBare == <<" ", "L", " ", "2", ",", "0", " ", "M">>

PathInputs ==
    {Concat(ts) : ts \in SeqsUpTo(PathPieces, MaxCmds)}
    \cup {PathClosedTight, PathClosedSpaced, PathQbad, PathQbadSpaced, PathCurve,
          PathMoveHalf, PathMoveBare}

PathInit ==
    /\ path_str \in PathInputs
    /\ command_list = <<>>
    /\ ci = 0
    /\ poly_list = <<>>
    /\ pcursor = <<>>
    /\ ppc = "start"
    /\ presult = <<>>
    /\ pnote = "none"
    /\ pprev = <<>>
    /\ OrderIdle /\ ParseIdle /\ WalkIdle /\ SvgIdle /\ BezierIdle /\ BacktrackIdle

\* lines 131-165: normalise and split the text, start with one empty subpath
Tokenise ==
    /\ ppc = "start"
    /\ command_list' = CommandList(path_str)
    /\ poly_list' = <<(<<>>)>>
    /\ pcursor' = <<Q(0), Q(0)>>
    /\ ppc' = "loop"
    /\ UNCHANGED <<path_str, ci, presult, pnote, pprev>>
    /\ PathFrame

\* lines 166-206: one iteration of the loop over the commands
Command ==
    /\ ppc = "loop"
    /\ 2 * ci < Len(command_list)
    /\ LET r == DoCommand(poly_list, pcursor,
                          command_list[2 * ci + 1][1], command_list[2 * ci + 2])
       IN  /\ poly_list' = r.poly_list
           /\ pcursor' = r.cursor
           /\ pnote' = r.why
           /\ ppc' = CASE r.outcome = "ok" -> "loop"
                       [] r.outcome = "break" -> "convert"
                       [] r.outcome = "raise" -> "raised"
    /\ pprev' = [poly_list |-> poly_list, cursor |-> pcursor]
    /\ ci' = ci + 1
    /\ UNCHANGED <<path_str, command_list, presult>>
    /\ PathFrame

\* the loop has run out of commands
CommandsDone ==
    /\ ppc = "loop"
    /\ 2 * ci >= Len(command_list)
    /\ ppc' = "convert"
    /\ UNCHANGED <<path_str, command_list, ci, poly_list, pcursor, presult, pnote, pprev>>
    /\ PathFrame

\* lines 209-211: the vertices as pairs, and the return
Convert ==
    /\ ppc = "convert"
    /\ IF TuplesRaise(poly_list)
       THEN ppc' = "raised" /\ presult' = presult
       ELSE ppc' = "returned" /\ presult' = Tuples(poly_list)
    /\ UNCHANGED <<path_str, command_list, ci, poly_list, pcursor, pnote, pprev>>
    /\ PathFrame

PathNext == Tokenise \/ Command \/ CommandsDone \/ Convert

SpecPath == PathInit /\ [][PathNext]_vars

----------------------------------------------------------------------------
(* Claims about path_to_poly_list *)

PathEnded == ppc \in {"returned", "raised"}

\* C4: the path "M0,0 L10,0 L10,10 Z", its command letters written against
\* their first number, returns exactly the one polygon
\* [(0,0),(10,0),(10,10),(0,0)], as the same path with a space after each
\* letter does.
C4_TightLetters ==
    (PathEnded /\ path_str \in {PathClosedTight, PathClosedSpaced}) =>
        /\ ppc = "returned"
        /\ presult = <<QPoly(<< <<0, 0>>, <<10, 0>>, <<10, 10>>, <<0, 0>> >>)>>

\* C5: a command letter with no handler, or a value that is no number, ends
\* the interpretation without an error: the subpaths are left as they were
\* before that command and are what is returned; "M0,0 Qbad" returns [(0,0)]
\* or an empty fragment.
C5_StopsAndReturns ==
    /\ pnote \in {"nohandler", "valueerror"} =>
           /\ poly_list = pprev.poly_list
           /\ ppc # "raised"
           /\ ppc = "returned" => presult = Tuples(pprev.poly_list)
    /\ (PathEnded /\ path_str = PathQbad) =>
           /\ ppc = "returned"
           /\ presult \in {<<(<<>>)>>, <<QPoly(<< <<0, 0>> >>)>>}

\* C6: path_to_poly_list never ends with an unhandled error, whatever the
\* commands and values: a ClosePath on a subpath without points and a value
\* group shorter than the command's arity included.
C6_NeverRaises == ppc # "raised"

----------------------------------------------------------------------------
(* geo.py: 3x3 matrices of numbers, parse_transform *)

Mat(a, b, c, d, e, f, g, h, i) ==
    << <<Q(a), Q(b), Q(c)>>, <<Q(d), Q(e), Q(f)>>, <<Q(g), Q(h), Q(i)>> >>

\* np.identity(3)
Identity3 == Mat(1, 0, 0, 0, 1, 0, 0, 0, 1)

\* np.matrix product A * B
MatMul(A, B) ==
    [r \in 1..3 |-> [c \in 1..3 |->
        QAdd(QAdd(QMul(A[r][1], B[1][c]), QMul(A[r][2], B[2][c])), QMul(A[r][3], B[3][c]))]]

\* [0-9.e-]
NumChars == DigitChars \cup {".", "e", "-"}

\* the longest prefix of t made of characters of S
RECURSIVE RunOf(_, _)
RunOf(t, S) ==
    IF t = <<>> \/ t[1] \notin S THEN <<>> ELSE <<t[1]>> \o RunOf(Tail(t), S)

StartsWith(t, prefix) == Len(t) >= Len(prefix) /\ SubSeq(t, 1, Len(prefix)) = prefix

\* ([0-9.e-]+) k times, separated by "," and closed by ")", at the head of t
RECURSIVE MatchGroups(_, _)
MatchGroups(t, k) ==
    LET run == RunOf(t, NumChars)
        rest == Drop(t, Len(run))
        more == MatchGroups(Tail(rest), k - 1)
    IN  IF run = <<>> \/ rest = <<>>
        THEN [ok |-> FALSE, groups |-> <<>>]
        ELSE IF k = 1
        THEN [ok |-> rest[1] = ")", groups |-> <<run>>]
        ELSE IF rest[1] = ","
        THEN [ok |-> more.ok, groups |-> <<run>> \o more.groups]
        ELSE [ok |-> FALSE, groups |-> <<>>]

\* re.compile(name \( group , ... , group \), re.X).match(t)
MatchCall(t, name, k) ==
    IF StartsWith(t, name \o <<"(">>)
    THEN MatchGroups(Drop(t, Len(name) + 1), k)
    ELSE [ok |-> FALSE, groups |-> <<>>]

\* math.cos and math.sin of math.radians(deg), for the multiples of 90 degrees
\* (the rotations drawn below use no other angle)
CosDeg(deg) ==
    CASE deg % 360 = 0 -> 1 [] deg % 360 = 90 -> 0 [] deg % 360 = 180 -> 0 - 1 [] deg % 360 = 270 -> 0

SinDeg(deg) ==
    CASE deg % 360 = 0 -> 0 [] deg % 360 = 90 -> 1 [] deg % 360 = 180 -> 0 [] deg % 360 = 270 -> 0 - 1

RotationMatrix(deg) ==
    Mat(CosDeg(deg), SinDeg(deg), 0, 0 - SinDeg(deg), CosDeg(deg), 0, 0, 0, 1)

TranslationMatrix(tx, ty) == Mat(1, 0, tx, 0, 1, ty, 0, 0, 1)

\* the matrix built from the converted groups of the form that matched
TransformMatrix(form, x) ==
    CASE form = "matrix" -> Mat(x[1], x[3], x[5], x[2], x[4], x[6], 0, 0, 1)
      [] form = "translate2" -> TranslationMatrix(x[1], x[2])
      [] form = "translate1" -> TranslationMatrix(x[1], 0)
      [] form = "rotate1" -> RotationMatrix(x[1])
      [] form = "rotate3" ->
             MatMul(MatMul(TranslationMatrix(x[2], x[3]), RotationMatrix(x[1])),
                    TranslationMatrix(0 - x[2], 0 - x[3]))
      [] form = "scale2" -> Mat(x[1], 0, 0, 0, x[2], 0, 0, 0, 1)
      [] form = "scale1" -> Mat(x[1], 0, 0, 0, x[1], 0, 0, 0, 1)

\* the patterns of parse_transform, in the order they are tried
TransformForms == <<
    [form |-> "matrix", name |-> <<"m", "a", "t", "r", "i", "x">>, k |-> 6],
    [form |-> "translate2", name |-> <<"t", "r", "a", "n", "s", "l", "a", "t", "e">>, k |-> 2],
    [form |-> "translate1", name |-> <<"t", "r", "a", "n", "s", "l", "a", "t", "e">>, k |-> 1],
    [form |-> "rotate1", name |-> <<"r", "o", "t", "a", "t", "e">>, k |-> 1],
    [form |-> "rotate3", name |-> <<"r", "o", "t", "a", "t", "e">>, k |-> 3],
    [form |-> "scale2", name |-> <<"s", "c", "a", "l", "e">>, k |-> 2],
    [form |-> "scale1", name |-> <<"s", "c", "a", "l", "e">>, k |-> 1] >>

\* parse_transform: kind "matrix" with the matrix m, kind "none" (None is
\* returned), or kind "raise" (float() raised ValueError on a matched group)
parse_transform(text) ==
    LET t == clean_whitespace(text)
        hits == {j \in 1..Len(TransformForms) :
                    MatchCall(t, TransformForms[j].name, TransformForms[j].k).ok}
        j == CHOOSE j \in hits : \A i \in hits : j <= i
        groups == MatchCall(t, TransformForms[j].name, TransformForms[j].k).groups
        xform == [i \in 1..Len(groups) |-> IntLiteralValue(groups[i])]
    IN  IF hits = {}
        THEN [kind |-> "none", m |-> Identity3]
        ELSE IF \E i \in 1..Len(groups) : ~IsFloatText(groups[i])
        THEN [kind |-> "raise", m |-> Identity3]
        ELSE [kind |-> "matrix", m |-> TransformMatrix(TransformForms[j].form, xform)]

----------------------------------------------------------------------------
(* parse_transform: bounds, inputs and the call *)

MaxArgs == 3

\* argument texts: numbers, and texts of [0-9.e-] that are no number
ArgTexts == {<<"9", "0">>, <<"-", "9", "0">>, <<"1", "8", "0">>, <<"-">>, <<"1", "-", "2">>}

CallNames == {<<"t", "r", "a", "n", "s", "l", "a", "t", "e">>, <<"r", "o", "t", "a", "t", "e">>, <<"s", "c", "a", "l", "e">>, <<"s", "k", "e", "w", "X">>}

\* name(args) with the arguments separated by sep and padded by pad
RECURSIVE JoinWith(_, _)
JoinWith(ts, sep) ==
    IF ts = <<>> THEN <<>>
    ELSE IF Len(ts) = 1 THEN ts[1]
    ELSE ts[1] \o sep \o JoinWith(Tail(ts), sep)

CallText(name, args, sep, pad) == name \o <<"(">> \o pad \o JoinWith(args, sep) \o pad \o <<")">>

ArgLists == UNION {[1..k -> ArgTexts] : k \in 1..MaxArgs}

\* the three ways of writing an argument list
CommaStyle == [sep |-> <<",">>, pad |-> <<>>]

SpaceStyle == [sep |-> <<" ">>, pad |-> <<>>]

PaddedStyle == [sep |-> <<" ", ",", " ">>, pad |-> <<" ">>]

ListStyles == {CommaStyle, SpaceStyle, PaddedStyle}

TransformInputs ==
    {CallText(name, args, st.sep, st.pad) : name \in CallNames, args \in ArgLists, st \in ListStyles}
    \cup {<<"t", "r", "a", "n", "s", "l", "a", "t", "e", "(", "1", "0", ",", "2", "0", ")">>, <<"t", "r", "a", "n", "s", "l", "a", "t", "e", "(", "1", "0", " ", "2", "0", ")">>, <<"t", "r", "a", "n", "s", "l", "a", "t", "e", "(", " ", "1", "0", " ", ",", " ", "2", "0", " ", ")">>,
          <<"m", "a", "t", "r", "i", "x", "(", "1", ",", "0", ",", "0", ",", "1", ",", "1", "0", ",", "2", "0", ")">>, <<"m", "a", "t", "r", "i", "x", "(", "1", " ", "0", " ", "0", " ", "1", " ", "1", "0", " ", "2", "0", ")">>,
          <<"r", "o", "t", "a", "t", "e", "(", "9", "0", ",", "5", ",", "5", ")">>, <<"t", "r", "a", "n", "s", "l", "a", "t", "e", "(", "1", ",", "0", ")">>, <<"t", "r", "a", "n", "s", "l", "a", "t", "e", "(", "-", ")">>, <<"s", "c", "a", "l", "e", "(", "1", "-", "2", ")">>,
          <<"s", "c", "a", "l", "e", "(", "2", ")">>, <<"s", "c", "a", "l", "e", "(", "2", ",", "3", ")">>, <<>>}

ParseInit ==
    /\ ttext \in TransformInputs
    /\ tpc = "start"
    /\ tresult = <<>>
    /\ OrderIdle /\ PathIdle /\ WalkIdle /\ SvgIdle /\ BezierIdle /\ BacktrackIdle

\* parse_transform(text) returns a matrix or None
ParseReturn ==
    /\ tpc = "start"
    /\ parse_transform(ttext).kind # "raise"
    /\ tresult' = parse_transform(ttext)
    /\ tpc' = "returned"
    /\ UNCHANGED ttext
    /\ ParseFrame

\* parse_transform(text) raises ValueError from float()
ParseRaise ==
    /\ tpc = "start"
    /\ parse_transform(ttext).kind = "raise"
    /\ tpc' = "raised"
    /\ UNCHANGED <<ttext, tresult>>
    /\ ParseFrame

ParseNext == ParseReturn \/ ParseRaise

SpecParse == ParseInit /\ [][ParseNext]_vars

----------------------------------------------------------------------------
(* Claims about parse_transform *)

\* C7: parse_transform never raises, whatever the text: it returns a matrix
\* or None, also for argument text the patterns accept that is no number,
\* such as "translate(-)" or "scale(1-2)".
C7_NeverRaises == tpc # "raised"

\* the argument texts of a call written in a style
SameArgs(text, name, args, st) == text = CallText(name, args, st.sep, st.pad)

\* C8: an argument list parses to the same matrix whether its arguments are
\* separated by commas, by spaces, or padded with white space: in
\* particular "translate(10 20)" and "translate( 10 , 20 )" return the matrix
\* "translate(10,20)" returns.
C8_SeparatorsAgree ==
    tpc = "returned" =>
        \A name \in CallNames, args \in ArgLists, st \in ListStyles :
            (SameArgs(ttext, name, args, st)
             /\ \A k \in 1..Len(args) : IsFloatText(args[k])) =>
                tresult = parse_transform(CallText(name, args, <<",">>, <<>>))

----------------------------------------------------------------------------
(* geo.py: path_to_poly_list as one call, transform_poly, extract_paths *)

\* the command loop from command k on: how it ended ("end", "break", "raise")
RECURSIVE RunCommands(_, _, _, _)

\* the loop after command k ended as r
AfterCommand(cl, k, r) ==
    IF r.outcome = "ok"
    THEN RunCommands(cl, k + 1, r.poly_list, r.cursor)
    ELSE [outcome |-> r.outcome, poly_list |-> r.poly_list]

RunCommands(cl, k, pl, cur) ==
    IF 2 * k >= Len(cl)
    THEN [outcome |-> "end", poly_list |-> pl]
    ELSE AfterCommand(cl, k, DoCommand(pl, cur, cl[2 * k + 1][1], cl[2 * k + 2]))

\* lines 209-211 after the loop ended as r: raised, or the polygons returned
ConvertResult(r) ==
    IF r.outcome = "raise" \/ TuplesRaise(r.poly_list)
    THEN [raised |-> TRUE, polys |-> <<>>]
    ELSE [raised |-> FALSE, polys |-> Tuples(r.poly_list)]

\* path_to_poly_list(path): raised, or the list of polygons returned
path_to_poly_list(path_text) ==
    ConvertResult(RunCommands(CommandList(path_text), 0, <<(<<>>)>>, <<Q(0), Q(0)>>))

\* xform * [x, y, 1], its first two components
TransformVertex(v, xform) ==
    <<QAdd(QAdd(QMul(xform[1][1], v[1]), QMul(xform[1][2], v[2])), xform[1][3]),
      QAdd(QAdd(QMul(xform[2][1], v[1]), QMul(xform[2][2], v[2])), xform[2][3])>>

transform_poly(poly, xform) == [k \in 1..Len(poly) |-> TransformVertex(poly[k], xform)]

\* the children of a node, in document order
RECURSIVE ChildrenFrom(_, _, _)
ChildrenFrom(tr, node, k) ==
    IF k > Len(tr) THEN <<>>
    ELSE (IF tr[k].parent = node THEN <<k>> ELSE <<>>) \o ChildrenFrom(tr, node, k + 1)

Children(tr, node) == ChildrenFrom(tr, node, 1)

\* the composition in the other order: xform_ * xform
ComposeSwapped(xform, local) == MatMul(local, xform)

\* the composition done when a local transform parsed: xform * xform_
Compose(xform, local) == MatMul(xform, local)

\* the transform an element works with and hands on (lines 352-356), pt being
\* what parse_transform made of its transform attribute
LocalXform(e, xform, pt) ==
    IF e.has_transform /\ pt.kind = "matrix" THEN Compose(xform, pt.m) ELSE xform

\* a call of extract_paths that adds nothing
NoPaths(xform) ==
    [raised |-> FALSE, polys |-> <<>>, raw |-> <<>>, xform |-> xform, calls |-> <<>>]

\* the body of extract_paths for element e, pt and pp being what
\* parse_transform and path_to_poly_list make of its attributes
VisitElement(tr, node, e, x1, pt, pp) ==
    IF e.name = "#text"
    THEN NoPaths(x1)
    ELSE IF e.has_transform /\ pt.kind = "raise"
    THEN [NoPaths(x1) EXCEPT !.raised = TRUE]
    ELSE IF e.name = "path"
    THEN IF pp.raised
         THEN [NoPaths(x1) EXCEPT !.raised = TRUE]
         ELSE [NoPaths(x1) EXCEPT !.raw = pp.polys,
                                  !.polys = [k \in 1..Len(pp.polys) |->
                                                transform_poly(pp.polys[k], x1)]]
    ELSE IF e.name \in {"svg", "g"} /\ ~e.hidden
    THEN [NoPaths(x1) EXCEPT !.calls = Children(tr, node)]
    ELSE NoPaths(x1)

\* one call of extract_paths(node, xform), without the calls it makes for the
\* children: raised, the polygons it adds itself, the transform it hands on,
\* and the children it calls itself for
VisitNode(tr, node, xform) ==
    VisitElement(tr, node, tr[node],
                 LocalXform(tr[node], xform, parse_transform(tr[node].transform)),
                 parse_transform(tr[node].transform),
                 path_to_poly_list(tr[node].d))

----------------------------------------------------------------------------
(* extract_paths: bounds, inputs and steps *)

MaxNodes == 3

Element(name, parent, has_transform, transform, hidden, d) ==
    [name |-> name, parent |-> parent, has_transform |-> has_transform,
     transform |-> transform, hidden |-> hidden, d |-> d]

\* a transform attribute: <<present, text>>
NoTransform == <<FALSE, <<>> >>

Translate10 == <<TRUE, <<"t", "r", "a", "n", "s", "l", "a", "t", "e", "(", "1", ",", "0", ")">>>>

Rotate9055 == <<TRUE, <<"r", "o", "t", "a", "t", "e", "(", "9", "0", ",", "5", ",", "5", ")">>>>

SkewX3 == <<TRUE, <<"s", "k", "e", "w", "X", "(", "3", ")">>>>

TranslateDash == <<TRUE, <<"t", "r", "a", "n", "s", "l", "a", "t", "e", "(", "-", ")">>>>

Scale2 == <<TRUE, <<"s", "c", "a", "l", "e", "(", "2", ")">>>>

PathD == <<"M", " ", "1", ",", "0", " ", "L", " ", "0", ",", "2">>

\* the generated elements: <<name, display:none, d, transform attribute>>
NodeChoices == {
    <<"g", FALSE, <<>>, NoTransform>>,
    <<"g", FALSE, <<>>, Rotate9055>>,
    <<"g", FALSE, <<>>, SkewX3>>,
    <<"g", FALSE, <<>>, TranslateDash>>,
    <<"g", TRUE, <<>>, Rotate9055>>,
    <<"path", FALSE, PathD, NoTransform>>,
    <<"path", FALSE, PathD, Translate10>>,
    <<"rect", FALSE, <<>>, Translate10>> }

RootTransforms == {NoTransform, Scale2}

RootElements == {Element("svg", 0, t[1], t[2], FALSE, <<>>) : t \in RootTransforms}

\* the trees of n elements: element 1 is the root, every other element hangs
\* under an earlier one
RECURSIVE TreesOf(_)
TreesOf(n) ==
    IF n = 1 THEN {<<r>> : r \in RootElements}
    ELSE {Append(tr, Element(c[1], par, c[4][1], c[4][2], c[2], c[3])) :
             tr \in TreesOf(n - 1), par \in 1..(n - 1), c \in NodeChoices}

Trees == UNION {TreesOf(n) : n \in 1..MaxNodes}

\* the xform argument: None, or a page transform
PageExample == Mat(2, 0, 0, 0, 0 - 2, 10, 0, 0, 1)

RootXforms == {[given |-> FALSE, m |-> Identity3], [given |-> TRUE, m |-> PageExample]}

\* lines 342-343: xform defaults to the identity
StartXform(rx) == IF rx.given THEN rx.m ELSE Identity3

WalkInit ==
    /\ tree \in Trees
    /\ root_xform \in RootXforms
    /\ wstack = <<[node |-> 1, xform |-> StartXform(root_xform)]>>
    /\ wpaths = <<>>
    /\ wlog = <<>>
    /\ wpc = "walk"
    /\ OrderIdle /\ PathIdle /\ ParseIdle /\ SvgIdle /\ BezierIdle /\ BacktrackIdle

\* the effect of the call for frame f, r being what VisitNode made of it
VisitEffect(f, r) ==
    IF r.raised
    THEN /\ wpc' = "raised"
         /\ UNCHANGED <<wstack, wpaths, wlog>>
    ELSE /\ wstack' = [k \in 1..Len(r.calls) |-> [node |-> r.calls[k], xform |-> r.xform]]
                       \o Tail(wstack)
         /\ wpaths' = wpaths \o r.polys
         /\ wlog' = IF tree[f.node].name = "path"
                    THEN Append(wlog, [node |-> f.node, xform |-> r.xform,
                                       raw |-> r.raw, polys |-> r.polys])
                    ELSE wlog
         /\ wpc' = wpc

\* one call of extract_paths: the element on top of the pending calls
Visit ==
    /\ wpc = "walk"
    /\ wstack # <<>>
    /\ VisitEffect(Head(wstack), VisitNode(tree, Head(wstack).node, Head(wstack).xform))
    /\ UNCHANGED <<tree, root_xform, svars>>
    /\ WalkFrame

\* the outermost call returns
WalkReturn ==
    /\ wpc = "walk"
    /\ wstack = <<>>
    /\ wpc' = "returned"
    /\ UNCHANGED <<tree, root_xform, wstack, wpaths, wlog, svars>>
    /\ WalkFrame

WalkNext == Visit \/ WalkReturn

SpecWalk == WalkInit /\ [][WalkNext]_vars

----------------------------------------------------------------------------
(* Claims about extract_paths *)

\* the local transform of an element: the identity when it has none or when
\* parse_transform returns None for it
LocalMatrix(e) ==
    IF e.has_transform
    THEN LET pt == parse_transform(e.transform)
         IN  IF pt.kind = "matrix" THEN pt.m ELSE Identity3
    ELSE Identity3

\* the product, root first, of the root transform and the local transforms on
\* the chain from the root down to the node
RECURSIVE ChainProduct(_, _, _)
ChainProduct(tr, start, node) ==
    MatMul(IF tr[node].parent = 0 THEN start
           ELSE ChainProduct(tr, start, tr[node].parent),
           LocalMatrix(tr[node]))

RECURSIVE ConcatPolys(_)
ConcatPolys(entries) ==
    IF entries = <<>> THEN <<>> ELSE entries[1].polys \o ConcatPolys(Tail(entries))

\* svg > g rotate(90,5,5) > path translate(1,0)
RotateThenTranslate == <<
    Element("svg", 0, FALSE, <<>>, FALSE, <<>>),
    Element("g", 1, TRUE, Rotate9055[2], FALSE, <<>>),
    Element("path", 2, TRUE, Translate10[2], FALSE, PathD) >>

\* C9: the transform applied to the points of every path element is the
\* product, root first and left to right, of the root transform and the local
\* transforms on the chain from the root to that path, an element without a
\* transform or with one parse_transform returns None for counting as the
\* identity, whatever was visited before; the polygons collected are the
\* path's polygons under that transform; rotate(90,5,5) over translate(1,0)
\* gives parse(rotate(90,5,5)) * parse(translate(1,0)).
C9_RootFirstProduct ==
    /\ \A k \in 1..Len(wlog) :
           LET chain == ChainProduct(tree, StartXform(root_xform), wlog[k].node)
           IN  /\ wlog[k].xform = chain
               /\ wlog[k].polys =
                      [j \in 1..Len(wlog[k].raw) |-> transform_poly(wlog[k].raw[j], chain)]
    /\ wpaths = ConcatPolys(wlog)
    /\ (tree = RotateThenTranslate /\ ~root_xform.given /\ wpc = "returned") =>
           /\ Len(wlog) = 1
           /\ wlog[1].xform = MatMul(parse_transform(Rotate9055[2]).m,
                                     parse_transform(Translate10[2]).m)
           /\ wlog[1].xform # MatMul(parse_transform(Translate10[2]).m,
                                     parse_transform(Rotate9055[2]).m)

\* the example of C9 has been walked: the path's points (1,0) and (0,2) came
\* out under rotate(90,5,5) * translate(1,0)
C9_Witness ==
    /\ wpc = "returned"
    /\ tree = RotateThenTranslate
    /\ ~root_xform.given
    /\ wlog[1].xform = Mat(0, 1, 0, 0 - 1, 0, 9, 0, 0, 1)
    /\ wpaths = <<QPoly(<< <<0, 8>>, <<2, 9>> >>)>>

----------------------------------------------------------------------------
(* geo.py: text_to_mm, svg2paths *)

AsciiLower == <<"a", "b", "c", "d", "e", "f", "g", "h", "i", "j", "k", "l", "m", "n", "o", "p", "q", "r", "s", "t", "u", "v", "w", "x", "y", "z">>

AsciiUpper == <<"A", "B", "C", "D", "E", "F", "G", "H", "I", "J", "K", "L", "M", "N", "O", "P", "Q", "R", "S", "T", "U", "V", "W", "X", "Y", "Z">>

\* str.lower()
str_lower(t) ==
    [k \in 1..Len(t) |->
        IF \E j \in 1..26 : AsciiUpper[j] = t[k]
        THEN AsciiLower[CHOOSE j \in 1..26 : AsciiUpper[j] = t[k]]
        ELSE t[k]]

\* str.strip()
RECURSIVE str_strip(_)
str_strip(t) ==
    IF t = <<>> THEN t
    ELSE IF t[1] = " " THEN str_strip(Tail(t))
    ELSE IF t[Len(t)] = " " THEN str_strip(SubSeq(t, 1, Len(t) - 1))
    ELSE t

\* a / b, b not zero
QDiv(a, b) ==
    IF b[1] < 0 THEN QNorm(0 - a[1] * b[2], a[2] * (0 - b[1]))
    ELSE QNorm(a[1] * b[2], a[2] * b[1])

\* ^([0-9.]+)\s*unit$ on t, rest being t after the group
UnitMatchRest(group, rest, unit) ==
    [matched |-> group # <<>> /\ Drop(rest, Len(RunOf(rest, {" "}))) = unit,
     group |-> group]

UnitMatch(t, unit) ==
    UnitMatchRest(RunOf(t, DigitChars \cup {"."}),
                  Drop(t, Len(RunOf(t, DigitChars \cup {"."}))), unit)

\* the units of text_to_mm in the order tried, with their factors
UnitFactors == << <<<<"m", "m">>, Q(1)>>, <<<<"c", "m">>, Q(10)>>, <<<<"i", "n">>, <<127, 5>> >> >>

\* lines 19-29 for the first unit that matches
ConvertUnit(f, factor) ==
    IF f.ok THEN [kind |-> "mm", v |-> QMul(f.v, factor)]
    ELSE [kind |-> "raise", v |-> Q(0)]

\* text_to_mm on the stripped, lower-cased text: kind "mm" with the number,
\* "none" for the None of line 36, "raise" for the ValueError of float()
UnitLookup(t) ==
    IF \A k \in 1..3 : ~UnitMatch(t, UnitFactors[k][1]).matched
    THEN [kind |-> "none", v |-> Q(0)]
    ELSE ConvertUnit(
             py_float(UnitMatch(t, UnitFactors[
                 CHOOSE k \in 1..3 : UnitMatch(t, UnitFactors[k][1]).matched][1]).group),
             UnitFactors[CHOOSE k \in 1..3 : UnitMatch(t, UnitFactors[k][1]).matched][2])

text_to_mm(text) == UnitLookup(str_lower(str_strip(text)))

\* an attribute is <<present, text>>; svg.get(name, None) is truthy
Truthy(a) == a[1] /\ a[2] # <<>>

PageOutcome(outcome, error, m) == [outcome |-> outcome, error |-> error, m |-> m]

\* lines 405-421 with width, height in what text_to_mm made of them and the
\* viewbox in its words
PageMatrix(w, h, vb) ==
    IF w.kind = "raise" \/ h.kind = "raise"
    THEN PageOutcome("raise", "ValueError", Identity3)
    ELSE IF \E k \in 1..Len(vb) : ~py_float(vb[k]).ok
    THEN PageOutcome("raise", "ValueError", Identity3)
    ELSE IF Len(vb) < 3
    THEN PageOutcome("raise", "IndexError", Identity3)
    ELSE IF w.kind = "none"
    THEN PageOutcome("raise", "TypeError", Identity3)
    ELSE IF py_float(vb[3]).v = Q(0)
    THEN PageOutcome("raise", "ZeroDivisionError", Identity3)
    ELSE IF Len(vb) < 4
    THEN PageOutcome("raise", "IndexError", Identity3)
    ELSE IF h.kind = "none"
    THEN PageOutcome("raise", "TypeError", Identity3)
    ELSE IF py_float(vb[4]).v = Q(0)
    THEN PageOutcome("raise", "ZeroDivisionError", Identity3)
    ELSE PageOutcome("matrix", "none",
             << <<QDiv(w.v, py_float(vb[3]).v), Q(0), Q(0)>>,
                <<Q(0), QNeg(QDiv(h.v, py_float(vb[4]).v)), h.v>>,
                <<Q(0), Q(0), Q(1)>> >>)

\* lines 398-421 of svg2paths: the xform handed to extract_paths
PageTransform(pg) ==
    IF Truthy(pg.width) /\ Truthy(pg.height) /\ Truthy(pg.viewbox)
    THEN PageMatrix(text_to_mm(pg.width[2]), text_to_mm(pg.height[2]),
                    SplitWords(pg.viewbox[2], <<>>))
    ELSE PageOutcome("none", "none", Identity3)

----------------------------------------------------------------------------
(* svg2paths: inputs and steps *)

Absent == <<FALSE, <<>> >>

Attr(text) == <<TRUE, text>>

\* width and height attributes
SizeTexts == {
    Absent, Attr(<<>>), Attr(<<"1", "0", "0">>), Attr(<<"1", "0", "0", "m", "m">>), Attr(<<"1", "0", "c", "m">>), Attr(<<"1", "i", "n">>),
    Attr(<<"1", "0", "0", "p", "x">>), Attr(<<" ", "2", "0", " ", "M", "M", " ">>), Attr(<<".", "m", "m">>) }

\* viewbox attributes
ViewboxTexts == {
    Absent, Attr(<<"0", " ", "0", " ", "1", "0", "0", " ", "1", "0", "0">>), Attr(<<"0", " ", "0", " ", "5", "0", " ", "2", "0", "0">>), Attr(<<"0", " ", "0", " ", "0", " ", "1", "0", "0">>),
    Attr(<<"0", " ", "0", " ", "1", "0", "0">>), Attr(<<"0", ",", "0", ",", "1", "0", "0", ",", "1", "0", "0">>) }

PageInputs ==
    {[width |-> w, height |-> h, viewbox |-> v] :
        w \in SizeTexts, h \in SizeTexts, v \in ViewboxTexts}

\* svg > path
SinglePath == <<
    Element("svg", 0, FALSE, <<>>, FALSE, <<>>),
    Element("path", 1, FALSE, <<>>, FALSE, PathD) >>

\* svg > g translate(-)
BadTransform == <<
    Element("svg", 0, FALSE, <<>>, FALSE, <<>>),
    Element("g", 1, TRUE, TranslateDash[2], FALSE, <<>>) >>

SvgDocuments == {SinglePath, RotateThenTranslate, BadTransform}

SvgInit ==
    /\ page \in PageInputs
    /\ spc = "start"
    /\ serror = "none"
    /\ tree \in SvgDocuments
    /\ root_xform = [given |-> FALSE, m |-> Identity3]
    /\ wstack = <<>>
    /\ wpaths = <<>>
    /\ wlog = <<>>
    /\ wpc = "idle"
    /\ OrderIdle /\ PathIdle /\ ParseIdle /\ BezierIdle /\ BacktrackIdle

\* the effect of lines 398-423, r being what PageTransform made of the page
PageEffect(r) ==
    IF r.outcome = "raise"
    THEN /\ spc' = "raised"
         /\ serror' = r.error
         /\ UNCHANGED <<root_xform, wstack, wpc>>
    ELSE /\ spc' = "walking"
         /\ serror' = serror
         /\ root_xform' = [given |-> r.outcome = "matrix", m |-> r.m]
         /\ wstack' = <<[node |-> 1, xform |-> r.m]>>
         /\ wpc' = "walk"

\* svg2paths up to its call of extract_paths
PageSetup ==
    /\ spc = "start"
    /\ PageEffect(PageTransform(page))
    /\ UNCHANGED <<page, tree, wpaths, wlog>>
    /\ WalkFrame

\* extract_paths returned: svg2paths returns its paths
SvgReturn ==
    /\ spc = "walking"
    /\ wpc = "returned"
    /\ spc' = "returned"
    /\ UNCHANGED <<page, serror, wvars>>
    /\ WalkFrame

\* extract_paths raised: svg2paths lets the exception through
SvgRaise ==
    /\ spc = "walking"
    /\ wpc = "raised"
    /\ spc' = "raised"
    /\ serror' = "extract_paths"
    /\ UNCHANGED <<page, wvars>>
    /\ WalkFrame

SvgNext == PageSetup \/ Visit \/ WalkReturn \/ SvgReturn \/ SvgRaise

SpecSvg == SvgInit /\ [][SvgNext]_vars

----------------------------------------------------------------------------
(* Claims about svg2paths *)

\* text_to_mm returns None for the attribute
NoUnit(a) == Truthy(a) /\ text_to_mm(a[2]).kind = "none"

\* text_to_mm returns a number for the attribute
HasUnit(a) == Truthy(a) /\ text_to_mm(a[2]).kind = "mm"

\* the viewbox holds four numbers, the last two not zero
FourNumbers(a) ==
    /\ Truthy(a)
    /\ Len(SplitWords(a[2], <<>>)) = 4
    /\ \A k \in 1..4 : py_float(SplitWords(a[2], <<>>)[k]).ok
    /\ \A k \in 3..4 : py_float(SplitWords(a[2], <<>>)[k]).v # Q(0)

\* C10: when the document declares width, height and a well-formed view box
\* and the width or the height text has no recognised unit, svg2paths does
\* not fail in its page set-up: it goes on to walk the document with no page
\* transform, that is with the identity root transform.
C10_NoUnitProceeds ==
    ( /\ spc # "start"
      /\ FourNumbers(page.viewbox)
      /\ NoUnit(page.width) \/ HasUnit(page.width)
      /\ NoUnit(page.height) \/ HasUnit(page.height)
      /\ NoUnit(page.width) \/ NoUnit(page.height) )
    => /\ serror \notin {"TypeError", "ValueError", "IndexError", "ZeroDivisionError"}
       /\ ~root_xform.given

----------------------------------------------------------------------------
(* Claims about the polygons of path_to_poly_list *)

\* C11: every polygon in the list path_to_poly_list returns has at least one
\* point, whatever the path string: the empty string, a string without a
\* recognised command and a string whose first command is aborted included.
C11_PolygonsHavePoints ==
    ppc = "returned" => \A i \in 1..Len(presult) : presult[i] # <<>>

\* the text holds commands, and every one of them is a MoveTo
MoveOnly ==
    /\ command_list # <<>>
    /\ \A k \in 1..Len(command_list) :
           k % 2 = 1 => Upper(command_list[k][1]) = "M"

\* C12: a MoveTo that no drawing command follows contributes no polygon:
\* a path of MoveTo commands only, such as "M 0,0" or "M 0,0 M 5,5", returns
\* no polygon of a single point.
C12_NoSinglePointFromMove ==
    (ppc = "returned" /\ MoveOnly) =>
        \A i \in 1..Len(presult) : Len(presult[i]) # 1

----------------------------------------------------------------------------
(* poly_points_bezier: bounds, inputs and steps *)

MaxCoord == 2

BezierGrid == {<<x, y>> : x \in 0..MaxCoord, y \in 0..MaxCoord}

\* the step from a to b is zero or runs along one of the eight compass
\* directions, the directions Atan2Octant is defined for
CompassStep(a, b) ==
    \/ b[1] = a[1]
    \/ b[2] = a[2]
    \/ Abs(b[1] - a[1]) = Abs(b[2] - a[2])

\* control polygons: cursor, two control points and the end point
ControlPolygons ==
    {P \in BezierGrid \X BezierGrid \X BezierGrid \X BezierGrid :
        CompassStep(P[1], P[2]) /\ CompassStep(P[2], P[3]) /\ CompassStep(P[3], P[4])}

\* the six values of the segment that makes P out of cursor P[1]
SegmentOf(P, absolute) ==
    IF absolute
    THEN <<Q(P[2][1]), Q(P[2][2]), Q(P[3][1]), Q(P[3][2]), Q(P[4][1]), Q(P[4][2])>>
    ELSE <<Q(P[2][1] - P[1][1]), Q(P[2][2] - P[1][2]),
           Q(P[3][1] - P[1][1]), Q(P[3][2] - P[1][2]),
           Q(P[4][1] - P[1][1]), Q(P[4][2] - P[1][2])>>

BezierInit ==
    /\ \E P \in ControlPolygons : \E a \in BOOLEAN :
           /\ bz_cursor = QVertex(P[1])
           /\ bz_segment = SegmentOf(P, a)
           /\ bz_absolute = a
    /\ bz_result = <<>>
    /\ bpc = "start"
    /\ OrderIdle /\ PathIdle /\ ParseIdle /\ WalkIdle /\ SvgIdle /\ BacktrackIdle

\* one call of poly_points_bezier
BezierCall ==
    /\ bpc = "start"
    /\ bz_result' = poly_points_bezier("C", bz_cursor, bz_segment, bz_absolute).vertex_list
    /\ bpc' = "returned"
    /\ UNCHANGED <<bz_cursor, bz_segment, bz_absolute>>
    /\ BezierFrame

BezierNext == BezierCall

SpecBezier == BezierInit /\ [][BezierNext]_vars

----------------------------------------------------------------------------
(* Claims about poly_points_bezier *)

\* the control polygon of the call, in integers: the cursor and the three
\* points of the segment, made absolute
CallPolygon ==
    <<<<IntOf(bz_cursor[1]), IntOf(bz_cursor[2])>>>> \o
    [k \in 1..3 |->
        IF bz_absolute
        THEN <<IntOf(bz_segment[2 * k - 1]), IntOf(bz_segment[2 * k])>>
        ELSE <<IntOf(bz_cursor[1]) + IntOf(bz_segment[2 * k - 1]),
               IntOf(bz_cursor[2]) + IntOf(bz_segment[2 * k])>>]

Cross(a, b, c) == (b[1] - a[1]) * (c[2] - a[2]) - (b[2] - a[2]) * (c[1] - a[1])

Dot(a, b, c) == (b[1] - a[1]) * (c[1] - a[1]) + (b[2] - a[2]) * (c[2] - a[2])

\* a straight curve: start and end differ, both control points lie on the
\* segment from start to end, the first no farther along it than the second
StraightCurve(P) ==
    /\ P[1] # P[4]
    /\ Cross(P[1], P[4], P[2]) = 0 /\ Cross(P[1], P[4], P[3]) = 0
    /\ 0 <= Dot(P[1], P[4], P[2])
    /\ Dot(P[1], P[4], P[2]) <= Dot(P[1], P[4], P[3])
    /\ Dot(P[1], P[4], P[3]) <= Dot(P[1], P[4], P[4])

\* C13: a cubic segment whose control points lie on the line from its start to
\* its end, a control point on an endpoint and a line off the x axis included,
\* and whose chord is shorter than 100, is flattened with n = 1:
\* poly_points_bezier returns exactly one point, the end point.
C13_StraightIsOnePoint ==
    (bpc = "returned" /\ StraightCurve(CallPolygon)) =>
        bz_result = <<QVertex(CallPolygon[4])>>

----------------------------------------------------------------------------
(* Claims about MoveTo and ClosePath *)

\* the command interpreted last: its letter and its value words
LastLetter == command_list[2 * ci - 1][1]

LastWords == SplitWords(clean_whitespace(command_list[2 * ci]), <<>>)

\* the last step interpreted a command to its end
CommandDone == ci >= 1 /\ pnote = "none" /\ ppc # "raised"

\* the targets of the coordinate pairs of a MoveTo, from cursor cur: each pair
\* as given when absolute, each pair added to the point before it when relative
RECURSIVE MoveTargets(_, _, _)
MoveTargets(cur, words, absolute) ==
    IF Len(words) < 2 THEN <<>>
    ELSE LET x == py_float(words[1]).v
             y == py_float(words[2]).v
             target == IF absolute THEN <<x, y>>
                       ELSE <<QAdd(cur[1], x), QAdd(cur[2], y)>>
         IN  <<target>> \o MoveTargets(target, Drop(words, 2), absolute)

\* " L 2,0 m 1 2 1 0"
LineThenMove == <<" ", "L", " ", "2", ",", "0", " ", "m", " ", "1", " ", "2", " ", "1", " ", "0">>

\* C14: a MoveTo (M or m) with whole coordinate pairs, interpreted while the
\* current subpath has points, starts a new polygon and leaves every earlier
\* polygon as it was; the new polygon's first point is the MoveTo target, the
\* given pair when absolute and cursor plus the pair when relative, and the
\* further pairs after the same letter are appended to that same new polygon.
C14_MoveStartsPolygon ==
    ( /\ CommandDone
      /\ Upper(LastLetter) = "M"
      /\ Len(LastWords) % 2 = 0
      /\ Last(pprev.poly_list) # <<>> )
    => /\ Len(poly_list) = Len(pprev.poly_list) + 1
       /\ \A i \in 1..Len(pprev.poly_list) : poly_list[i] = pprev.poly_list[i]
       /\ Last(poly_list) =
              MoveTargets(pprev.cursor, LastWords, LastLetter = Upper(LastLetter))
       /\ LastWords # <<>> => pcursor = Last(Last(poly_list))

\* a relative MoveTo with two pairs has opened a second polygon after a line
C14_Witness ==
    /\ ppc = "returned"
    /\ path_str = LineThenMove
    /\ presult = <<QPoly(<< <<2, 0>> >>), QPoly(<< <<3, 2>>, <<4, 2>> >>)>>

\* C15: a ClosePath (Z or z) interpreted while the current subpath has a
\* point appends exactly one point, equal to that subpath's first point, as its
\* last point; it starts no new subpath, the cursor keeps its value, and no
\* other polygon is changed.
C15_CloseAppendsFirst ==
    ( /\ CommandDone
      /\ Upper(LastLetter) = "Z"
      /\ Last(pprev.poly_list) # <<>> )
    => /\ Len(poly_list) = Len(pprev.poly_list)
       /\ \A i \in 1..(Len(poly_list) - 1) : poly_list[i] = pprev.poly_list[i]
       /\ Last(poly_list) = Append(Last(pprev.poly_list), Last(pprev.poly_list)[1])
       /\ pcursor = pprev.cursor

\* a subpath of two distinct points has been closed
C15_Witness ==
    /\ CommandDone
    /\ Upper(LastLetter) = "Z"
    /\ Len(Last(pprev.poly_list)) >= 2
    /\ Last(pprev.poly_list)[1] # Last(Last(pprev.poly_list))
    /\ Last(Last(poly_list)) = Last(poly_list)[1]
    /\ Len(Last(poly_list)) = Len(Last(pprev.poly_list)) + 1

----------------------------------------------------------------------------
(* Claims about the endpoint index of order_paths *)

\* how many times the index holds polygon i's registration under key
RegistrationCount(idx, key, i, reverse) ==
    Cardinality({<<k, j>> \in (1..Len(idx)) \X (1..2 * MaxPolys) :
                    /\ j <= Len(idx[k].items)
                    /\ idx[k].key = key
                    /\ idx[k].items[j] = [i |-> i, reverse |-> reverse]})

EmittedSoFar == {picks[j].i : j \in 1..Len(picks)}

\* C16: whenever the selection loop of order_paths tests its condition, the
\* index holds no key with an empty list, holds for each non-empty polygon not
\* yet emitted exactly its start registration (reverse False) and its end
\* registration (reverse True), and holds nothing of a polygon already
\* emitted; each iteration has emitted exactly one polygon, and the loop ends
\* after as many iterations as there are non-empty polygons.
C16_IndexConsistent ==
    opc \in {"select", "done"} =>
        /\ \A k \in 1..Len(index) : index[k].items # <<>>
        /\ \A k, j \in 1..Len(index) : index[k].key = index[j].key => k = j
        /\ \A k \in 1..Len(index) : \A j \in 1..Len(index[k].items) :
               LET item == index[k].items[j]
               IN  /\ item.i \in 1..Len(path_list)
                   /\ item.i \notin EmittedSoFar
                   /\ path_list[item.i] # <<>>
                   /\ index[k].key = IF item.reverse THEN Last(path_list[item.i])
                                     ELSE path_list[item.i][1]
        /\ \A i \in 1..Len(path_list) :
               (path_list[i] # <<>> /\ i \notin EmittedSoFar) =>
                   /\ RegistrationCount(index, path_list[i][1], i, FALSE) = 1
                   /\ RegistrationCount(index, Last(path_list[i]), i, TRUE) = 1
        /\ Len(out_list) = Len(picks)
        /\ Cardinality(EmittedSoFar) = Len(picks)
        /\ \A i \in EmittedSoFar : path_list[i] # <<>>
        /\ opc = "done" => Len(picks) = Len(NonEmptyPolys(path_list))

\* between two iterations: one polygon emitted, the other one, which shares an
\* endpoint with it, still registered under its two endpoints
C16_Witness ==
    /\ opc = "select"
    /\ Len(path_list) = 2
    /\ Len(picks) = 1
    /\ Len(index) = 2
    /\ \E i \in 1..2 : i \notin EmittedSoFar /\ path_list[i] # <<>>
    /\ {path_list[1][1], Last(path_list[1])} \cap {path_list[2][1], Last(path_list[2])} # {}

----------------------------------------------------------------------------
(* obj2svg.py: remove_backtracks *)

\* tuple(sorted([cursor, vert]))
SortedPair(a, b) == IF a <= b THEN <<a, b>> ELSE <<b, a>>

\* an edge count that takes every traversal as forward
EdgeSignForward(cur, vert) == 1

\* line 92: 1 if vert > cursor else -1
EdgeSign(cur, vert) == IF vert > cur THEN 1 ELSE 0 - 1

\* line_dict[pair] += n on a defaultdict(int)
DictAdd(ld, pair, n) ==
    IF KeyPos(ld, pair) = 0
    THEN Append(ld, [key |-> pair, value |-> n])
    ELSE [ld EXCEPT ![KeyPos(ld, pair)].value = @ + n]

\* lines 88-94: the loop over face[1:], the cursor at cur
RECURSIVE CountEdges(_, _, _)
CountEdges(ld, cur, rest) ==
    IF rest = <<>> THEN ld
    ELSE IF cur = Head(rest) THEN CountEdges(ld, cur, Tail(rest))
    ELSE CountEdges(DictAdd(ld, SortedPair(cur, Head(rest)), EdgeSign(cur, Head(rest))),
                    Head(rest), Tail(rest))

\* lines 85-94: one face
CountFace(ld, face) == IF face = <<>> THEN ld ELSE CountEdges(ld, face[1], Tail(face))

\* [x] * n
Repeat(x, n) == [k \in 1..n |-> x]

\* line_soup[key] += items on a defaultdict(list)
SoupExtend(soup, key, items) ==
    IF KeyPos(soup, key) = 0
    THEN Append(soup, [key |-> key, items |-> items])
    ELSE [soup EXCEPT ![KeyPos(soup, key)].items = @ \o items]

\* lines 100-105: the loop over line_dict.items()
RECURSIVE BuildSoup(_, _)
BuildSoup(ld, soup) ==
    IF ld = <<>> THEN soup
    ELSE IF Head(ld).value > 0
    THEN BuildSoup(Tail(ld),
                   SoupExtend(soup, Head(ld).key[1], Repeat(Head(ld).key[2], Head(ld).value)))
    ELSE IF Head(ld).value < 0
    THEN BuildSoup(Tail(ld),
                   SoupExtend(soup, Head(ld).key[2], Repeat(Head(ld).key[1], 0 - Head(ld).value)))
    ELSE BuildSoup(Tail(ld), soup)

\* line_soup[key].pop(0) and the del of an emptied key, k being the place of
\* the key: not found (a KeyError), or the item and the soup left
SoupPopAt(soup, k) ==
    IF k = 0
    THEN [found |-> FALSE, item |-> 0, soup |-> soup]
    ELSE [found |-> TRUE, item |-> Head(soup[k].items),
          soup |-> IF Tail(soup[k].items) = <<>> THEN RemoveAt(soup, k)
                   ELSE [soup EXCEPT ![k].items = Tail(@)]]

SoupPop(soup, key) == SoupPopAt(soup, KeyPos(soup, key))

ChainOutcome(raised, soup, pl) == [raised |-> raised, soup |-> soup, poly_list |-> pl]

\* lines 130-138: the try, p being what the pop at e1 gave
ChainExtend(p, pl) ==
    IF p.found
    THEN ChainOutcome(FALSE, p.soup, ExtendLast(pl, <<p.item>>))
    ELSE ChainOutcome(FALSE, p.soup, Append(pl, <<>>))

\* lines 125-128: the else branch, p being what the pop at s1 gave
ChainStart(p, pl) ==
    IF p.found
    THEN ChainExtend(SoupPop(p.soup, p.item), ExtendLast(pl, <<p.item>>))
    ELSE ChainOutcome(TRUE, p.soup, pl)

\* lines 119-138 with s1 known and already in the last polyline
ChainFrom(soup, pl, s1) ==
    IF Len(Last(pl)) > 1
    THEN IF s1 = Last(Last(pl))
         THEN ChainOutcome(FALSE, soup, Append(pl, <<>>))
         ELSE ChainExtend(SoupPop(soup, Last(Last(pl))), pl)
    ELSE ChainStart(SoupPop(soup, s1), pl)

\* one iteration of the while loop of lines 112-138
ChainIteration(soup, pl) ==
    IF Last(pl) # <<>>
    THEN ChainFrom(soup, pl, Last(pl)[1])
    ELSE ChainFrom(soup, ExtendLast(pl, <<soup[1].key>>), soup[1].key)

----------------------------------------------------------------------------
(* remove_backtracks: bounds, inputs and steps *)

MaxFaceLen == 3

\* vertex numbers
Verts == {1, 2, 3}

\* faces: the vertex lists of at most MaxFaceLen vertices, the empty one included
Faces == SeqsUpTo(Verts, MaxFaceLen)

\* the faces a second face is taken from: one vertex fewer
ShortFaces == SeqsUpTo(Verts, MaxFaceLen - 1)

\* 1-2-3 and the same face walked back
ThereAndBack == << <<1, 2, 3>>, <<3, 2, 1>> >>

\* face lists: no face, one face, or a face and a shorter one
FaceLists ==
    {<<>>} \cup {<<f>> : f \in Faces}
    \cup {<<f, g>> : f \in Faces, g \in ShortFaces}
    \cup {ThereAndBack}

BacktrackInit ==
    /\ face_list \in FaceLists
    /\ fi = 0
    /\ line_dict = <<>>
    /\ line_soup = <<>>
    /\ rpoly_list = <<>>
    /\ rsteps = 0
    /\ rpc = "count"
    /\ OrderIdle /\ PathIdle /\ ParseIdle /\ WalkIdle /\ SvgIdle /\ BezierIdle

\* for face in face_list: one iteration
CountOneFace ==
    /\ rpc = "count"
    /\ fi < Len(face_list)
    /\ line_dict' = CountFace(line_dict, face_list[fi + 1])
    /\ fi' = fi + 1
    /\ UNCHANGED <<face_list, line_soup, rpoly_list, rsteps, rpc>>
    /\ BacktrackFrame

\* lines 96-110: the soup is made, poly_list = [[]]
MakeSoup ==
    /\ rpc = "count"
    /\ fi = Len(face_list)
    /\ line_soup' = BuildSoup(line_dict, <<>>)
    /\ rpoly_list' = <<(<<>>)>>
    /\ rpc' = "chain"
    /\ UNCHANGED <<face_list, fi, line_dict, rsteps>>
    /\ BacktrackFrame

\* the effect of one iteration, r being what ChainIteration made of it
ChainEffect(r) ==
    /\ line_soup' = r.soup
    /\ rpoly_list' = r.poly_list
    /\ rpc' = IF r.raised THEN "raised" ELSE rpc

\* while line_soup: one iteration
ChainStep ==
    /\ rpc = "chain"
    /\ line_soup # <<>>
    /\ ChainEffect(ChainIteration(line_soup, rpoly_list))
    /\ rsteps' = rsteps + 1
    /\ UNCHANGED <<face_list, fi, line_dict>>
    /\ BacktrackFrame

\* return poly_list
BacktrackReturn ==
    /\ rpc = "chain"
    /\ line_soup = <<>>
    /\ rpc' = "returned"
    /\ UNCHANGED <<face_list, fi, line_dict, line_soup, rpoly_list, rsteps>>
    /\ BacktrackFrame

BacktrackNext == CountOneFace \/ MakeSoup \/ ChainStep \/ BacktrackReturn

SpecBacktrack == BacktrackInit /\ [][BacktrackNext]_vars

\* remove_backtracks runs on: a step that can be taken is taken
SpecBacktrackFair == SpecBacktrack /\ WF_vars(BacktrackNext)

----------------------------------------------------------------------------
(* Claims about remove_backtracks *)

\* how often b follows a directly in the vertex lists of ls
Traversals(ls, a, b) ==
    Cardinality({<<i, k>> \in (1..Len(ls)) \X (1..MaxFaceLen * 4) :
                    /\ k < Len(ls[i])
                    /\ ls[i][k] = a
                    /\ ls[i][k + 1] = b})

\* the traversals of the faces from a to b that none from b to a takes back
NetEdges(a, b) ==
    IF Traversals(face_list, a, b) > Traversals(face_list, b, a)
    THEN Traversals(face_list, a, b) - Traversals(face_list, b, a)
    ELSE 0

\* the edges the faces walk, each counted once per traversal
FaceEdges ==
    Cardinality({<<i, k>> \in (1..Len(face_list)) \X (1..MaxFaceLen) :
                    k < Len(face_list[i]) /\ face_list[i][k] # face_list[i][k + 1]})

EdgesMatch ==
    \A a, b \in Verts :
        a # b => Traversals(rpoly_list, a, b) = NetEdges(a, b)

\* C17: remove_backtracks comes to its return for every face list, within a
\* number of loop iterations the input bounds, and the consecutive vertex
\* pairs of the polylines it returns are, as a multiset, the net directed
\* edges of the input: for each pair of vertices the traversals one way less
\* the traversals the other way, that many times in the surplus direction, no
\* pair of equal vertices, so that an edge walked as often one way as the
\* other is in no polyline.
C17_NetEdgesChained ==
    /\ [](rpc # "raised")
    /\ [](rsteps <= 2 * FaceEdges + 1)
    /\ [](rpc = "returned" =>
              /\ EdgesMatch
              /\ \A a \in Verts : Traversals(rpoly_list, a, a) = 0)
    /\ <>(rpc = "returned")

\* the faces 1-2-3 and 3-2: the edge 2-3 is walked both ways and dropped,
\* the edge 1-2 comes out once
C17_Witness ==
    /\ rpc = "returned"
    /\ face_list = << <<1, 2, 3>>, <<3, 2>> >>
    /\ Traversals(rpoly_list, 1, 2) = 1
    /\ Traversals(rpoly_list, 2, 3) = 0
    /\ Traversals(rpoly_list, 3, 2) = 0

====
